---- MODULE Spec2Model ----
(***************************************************************************)
(* The retrieval-augmented query pipeline of the repository:               *)
(*   backend/routers/chat.py        chat_endpoint                          *)
(*   backend/routers/upload.py      delete_file (the purge of vectors)     *)
(*   orchestrator/rag_workflow.py   rewrite_query, retrieve,               *)
(*                                  generate_answer, the compiled graph    *)
(* Text is modelled as a sequence of one-character strings, so that the    *)
(* splitting and stripping of rewrite_query are computed, not assumed.     *)
(***************************************************************************)
EXTENDS Integers, Sequences, FiniteSets, TLC

VARIABLES
    pc,                 \* position of the invocation in chat_endpoint / the graph
    query,              \* AgentState["query"]
    messages,           \* AgentState["messages"] (the history handed to the graph)
    state_keys,         \* the keys present in the AgentState record
    response,           \* response.content of the decomposition call
    rewritten_queries,  \* AgentState["rewritten_queries"]
    index,              \* the rows of the vector collection
    searches,           \* retrieve: per sub-query, the two partition results
    all_query_results,  \* retrieve: local list of per-sub-query result lists
    merged_docs,        \* retrieve: local
    unique_docs,        \* retrieve: local
    final_docs,         \* retrieve: local
    context,            \* AgentState["context"]
    sources,            \* AgentState["sources"] (a list built from a set)
    answer,             \* AgentState["answer"]
    error,              \* the exception that left the graph, "" when none
    failed_stage,       \* the node that raised, "" when none
    http,               \* the reply of chat_endpoint
    db_session,         \* whether the sessions row of the request is committed
    db_messages,        \* committed chat_messages rows of the session, oldest first
    turns,              \* requests started so far
    deletes,            \* file deletions so far
    selector,           \* the model the caller of the request asks for
    registry,           \* document_metadata: the entry of each filename
    tasks,              \* the background tasks queued by upload_file
    router_reply,       \* the reply of the upload router to its last request
    llm_model           \* the model the request's last model call went to, "" when none

vars == <<pc, query, messages, state_keys, response, rewritten_queries, index,
          searches, all_query_results, merged_docs, unique_docs, final_docs,
          context, sources, answer, error, failed_stage, http, db_session,
          db_messages, turns, deletes, selector, registry, tasks,
          router_reply, llm_model>>

----------------------------------------------------------------------------
(* Bounds of the model *)

\* longest decomposition response drawn when rewrite_query is checked alone
MaxRespLen == 7
\* longest decomposition response drawn in the end-to-end pipeline
MaxPipeRespLen == 3
\* chat requests per behaviour
MaxTurns == 1

----------------------------------------------------------------------------
(* Text *)

NL == "\n"
QUOTE == "\""
COMMA == ","
SPACE == " "

\* the characters a response is drawn from
Alphabet == {"a", SPACE, COMMA, QUOTE, NL}

\* str.strip() with no argument strips whitespace
Whitespace == {SPACE, NL}

RECURSIVE LStrip(_, _)
LStrip(s, chars) ==
    IF s # <<>> /\ Head(s) \in chars THEN LStrip(Tail(s), chars) ELSE s

RECURSIVE RStrip(_, _)
RStrip(s, chars) ==
    IF s # <<>> /\ s[Len(s)] \in chars
    THEN RStrip(SubSeq(s, 1, Len(s) - 1), chars)
    ELSE s

\* str.strip(chars): drop leading and trailing characters that are in chars
Strip(s, chars) == RStrip(LStrip(s, chars), chars)

\* str.split(sep) for a one-character separator: always at least one piece
RECURSIVE Split(_, _)
Split(s, sep) ==
    IF \A i \in 1..Len(s) : s[i] # sep
    THEN <<s>>
    ELSE LET k == CHOOSE i \in 1..Len(s) :
                      s[i] = sep /\ \A j \in 1..(i - 1) : s[j] # sep
         IN  <<SubSeq(s, 1, k - 1)>> \o Split(SubSeq(s, k + 1, Len(s)), sep)

\* the characters a response is drawn from in the end-to-end pipeline, where
\* only its line structure matters
PipeAlphabet == {"a", NL}

\* all texts over chars of length at most n
Texts(chars, n) == UNION {[1..k -> chars] : k \in 0..n}

----------------------------------------------------------------------------
(* rewrite_query: parsing of the model's response *)

\* [q.strip().strip(",").strip('"') for q in raw_queries if q.strip()]
CleanLine(q) == Strip(Strip(Strip(q, Whitespace), {COMMA}), {QUOTE})

KeepLine(q) == Strip(q, Whitespace) # <<>>

ParseLines(content) ==
    LET raw_queries == Split(content, NL)
        kept == SelectSeq(raw_queries, KeepLine)
    IN  [i \in 1..Len(kept) |-> CleanLine(kept[i])]

\* a fallback that cleans the query like a response line
ParseQueries_CleanFallback(content, q) ==
    LET queries == ParseLines(content)
    IN  IF queries = <<>> THEN <<CleanLine(q)>> ELSE queries

\* if not queries: queries = [query]
ParseQueries(content, q) ==
    LET queries == ParseLines(content)
    IN  IF queries = <<>> THEN <<q>> ELSE queries

----------------------------------------------------------------------------
(* The vector collection *)

\* rag_workflow.py: SYSTEM_DOCS, the allowlist that defines the system partition
SYSTEM_DOCS == <<"01_Customer_FAQ_Guide.pdf",
                 "02_New_Meter_Application_Process.pdf",
                 "03_Billing_Dispute_Resolution_Procedure.pdf",
                 "04_Emergency_Response_Protocol.pdf",
                 "05_Payment_Plans_Financial_Assistance.pdf">>

Range(s) == {s[i] : i \in 1..Len(s)}

\* filename of an uploaded document, not in the allowlist
SessionDoc == "notes.txt"

\* the documents whose rows a drawn collection may hold
Documents == {SYSTEM_DOCS[1], SYSTEM_DOCS[2], SessionDoc}

\* rows stored for each document
RowsFaq == 3
RowsMeter == 5
RowsNotes == 8

DocRows(f) ==
    CASE f = SYSTEM_DOCS[1] -> RowsFaq
      [] f = SYSTEM_DOCS[2] -> RowsMeter
      [] OTHER -> RowsNotes

\* row ids of a document start after its base
DocBase(f) ==
    CASE f = SYSTEM_DOCS[1] -> 0
      [] f = SYSTEM_DOCS[2] -> 30
      [] OTHER -> 100

\* Texts repeat in two places: the last row of the meter document has the
\* text of its first row (a chunk stored twice), and the first row of
\* notes.txt has the text of the first FAQ row (same text, other document).
RowText(f, r) ==
    CASE f = SYSTEM_DOCS[2] /\ r = DocRows(f) /\ r > 1 -> <<"t", DocBase(f) + 1>>
      [] f = SessionDoc /\ r = 1 -> <<"t", DocBase(SYSTEM_DOCS[1]) + 1>>
      [] OTHER -> <<"t", DocBase(f) + r>>

\* a stored row: langchain Document(page_content, metadata={"source": ...})
Row(f, r) == [id |-> DocBase(f) + r, page_content |-> RowText(f, r), source |-> f]

Collection(docs) == UNION {{Row(f, r) : r \in 1..DocRows(f)} : f \in docs}

\* The similarity ranking of a query is decided by the embedder; it is drawn
\* from these orders of the rows (smallest key first).
RankModes == {"asc", "desc", "mix"}

RankKey(mode, doc) ==
    CASE mode = "asc" -> doc.id
      [] mode = "desc" -> 0 - doc.id
      [] OTHER -> (doc.id * 7) % 31

\* the k nearest of rows, nearest first
RECURSIVE TopK(_, _, _)
TopK(rows, mode, k) ==
    IF k = 0 \/ rows = {}
    THEN <<>>
    ELSE LET best == CHOOSE r \in rows :
                        \A o \in rows : RankKey(mode, r) <= RankKey(mode, o)
         IN  <<best>> \o TopK(rows \ {best}, mode, k - 1)

\* retrieve: k=5 per search
SearchK == 5

\* filter {"source": {"$in": SYSTEM_DOCS}}
system_filter(doc) == doc.source \in Range(SYSTEM_DOCS)

\* the session search run with the system filter
session_filter_In(doc) == doc.source \in Range(SYSTEM_DOCS)

\* filter {"source": {"$nin": SYSTEM_DOCS}}
session_filter(doc) == doc.source \notin Range(SYSTEM_DOCS)

\* vector_store.similarity_search(q, k=5, filter=...)
similarity_search(rows, mode, partition) ==
    TopK({d \in rows : IF partition = "system" THEN system_filter(d)
                                                ELSE session_filter(d)},
         mode, SearchK)

\* the model steers the ranking by the sub-query's text: the embedder is a
\* function of the text, and texts of different length rank differently
RankMode(q) ==
    CASE Len(q) % 3 = 1 -> "asc"
      [] Len(q) % 3 = 2 -> "desc"
      [] OTHER -> "mix"

----------------------------------------------------------------------------
(* retrieve: merge, deduplication, cap *)

Max(a, b) == IF a >= b THEN a ELSE b
Min(a, b) == IF a <= b THEN a ELSE b

\* max(len(res) for res in all_query_results) if all_query_results else 0
RECURSIVE MaxResults(_)
MaxResults(results) ==
    IF results = <<>> THEN 0
    ELSE Max(Len(Head(results)), MaxResults(Tail(results)))

\* for query_res in all_query_results: if i < len(query_res): append
RECURSIVE MergeRound(_, _, _)
MergeRound(results, i, j) ==
    IF j > Len(results) THEN <<>>
    ELSE (IF i <= Len(results[j]) THEN <<results[j][i]>> ELSE <<>>)
         \o MergeRound(results, i, j + 1)

\* for i in range(max_results)
RECURSIVE MergeFrom(_, _, _)
MergeFrom(results, i, max_results) ==
    IF i > max_results THEN <<>>
    ELSE MergeRound(results, i, 1) \o MergeFrom(results, i + 1, max_results)

\* a merge that appends the lists one after the other
RECURSIVE FairMerge_Concat(_)
FairMerge_Concat(results) ==
    IF results = <<>> THEN <<>>
    ELSE Head(results) \o FairMerge_Concat(Tail(results))

FairMerge(results) == MergeFrom(results, 1, MaxResults(results))

\* if doc.page_content not in seen_content: append, add
RECURSIVE DedupFrom(_, _)
DedupFrom(docs, seen_content) ==
    IF docs = <<>> THEN <<>>
    ELSE IF Head(docs).page_content \notin seen_content
         THEN <<Head(docs)>>
              \o DedupFrom(Tail(docs), seen_content \cup {Head(docs).page_content})
         ELSE DedupFrom(Tail(docs), seen_content)

\* a deduplication by row identity instead of by text
RECURSIVE DedupById(_, _)
DedupById(docs, seen_ids) ==
    IF docs = <<>> THEN <<>>
    ELSE IF Head(docs).id \notin seen_ids
         THEN <<Head(docs)>> \o DedupById(Tail(docs), seen_ids \cup {Head(docs).id})
         ELSE DedupById(Tail(docs), seen_ids)

Deduplicate_ById(docs) == DedupById(docs, {})

\* a deduplication that puts each kept row in front: unique_docs.insert(0, doc)
Deduplicate_Reversed(docs) ==
    LET kept == DedupFrom(docs, {})
    IN  [i \in 1..Len(kept) |-> kept[Len(kept) + 1 - i]]

Deduplicate(docs) == DedupFrom(docs, {})

\* final_docs = unique_docs[:12]
FinalCap == 12
\* a cap that is off by one
CapDocs_OffByOne(docs) == SubSeq(docs, 1, Min(FinalCap + 1, Len(docs)))

\* a cap that keeps the first chunk only: unique_docs[:1]
CapDocs_FirstOnly(docs) == SubSeq(docs, 1, Min(1, Len(docs)))

CapDocs(docs) == SubSeq(docs, 1, Min(FinalCap, Len(docs)))

ContextOf(docs) == [i \in 1..Len(docs) |-> docs[i].page_content]

\* a lookup of a metadata key the rows do not carry
MetadataSource_WrongKey(doc) == "Unknown"

\* doc.metadata.get("source", "Unknown"): every stored row carries a source
MetadataSource(doc) == doc.source

SourceSet(docs) == {MetadataSource(docs[i]) : i \in 1..Len(docs)}

\* list(set(...)): the elements of the set once each, in an order Python
\* does not fix
ListsOfSet(S) ==
    {l \in [1..Cardinality(S) -> S] : \A i, j \in 1..Cardinality(S) : i # j => l[i] # l[j]}

----------------------------------------------------------------------------
(* Inputs *)

\* chat requests' last user message
Queries == {<<"a">>, <<SPACE, "a", COMMA>>, <<>>}

\* what the generation model may answer
Answers == {<<"o", "k">>, <<>>}

\* orchestrator/llm_client.py declares get_llm() without a parameter, and the
\* nodes call get_llm(model_name): with that module the call raises TypeError
GetLlmErrors == {"TypeError"}

\* chain.ainvoke: the Ollama server is unreachable (ConnectError) or does not
\* know the model (ResponseError)
InvokeErrors == {"ConnectError", "ResponseError"}

\* str(e) of what the model call of a node can raise
LlmErrors == GetLlmErrors \cup InvokeErrors

\* str(e) of what the vector store can raise when Postgres is unreachable
StoreErrors == {"OperationalError"}

\* most sub-queries handed to retrieve when it is checked alone
MaxSubQueries == 3
\* most file deletions during a behaviour
MaxDeletes == 1

\* sub-query texts handed to retrieve when it is checked alone
SubQuerySamples == {<<"a">>, <<"a", "a">>}

SeqsUpTo(S, n) == UNION {[1..k -> S] : k \in 0..n}

\* the models a caller may ask for; NoSelector when the request names none
NoSelector == ""
Selectors == {NoSelector, "llama3.2:3b"}

\* MODEL_NAME = os.getenv("OLLAMA_MODEL", "gpt-oss:120b-cloud"), read once at
\* import
MODEL_NAME == "gpt-oss:120b-cloud"

\* ChatOllama(model=MODEL_NAME, ...): the model of the client that get_llm
\* builds, whatever the nodes hand to it
get_llm(model_name) == MODEL_NAME

\* the files that are uploaded, ingested and deleted: a system document and
\* two files of sessions
IngestFiles == {SYSTEM_DOCS[1], "manual.pdf"}

\* the filename has no row in document_metadata
NoRowId == <<"none", 0>>
NoEntry == [id |-> NoRowId, status |-> "none", session |-> ""]
EmptyRegistry == [f \in IngestFiles |-> NoEntry]

\* a reply of the upload router: the handler, its argument, the status it
\* reports and the number of entries it reports as deleted
RouterReply(handler, arg, status, count) ==
    [handler |-> handler, arg |-> arg, status |-> status, count |-> count]
NoRequest == RouterReply("", "", "", 0)

NoReply == [status |-> 0, answer |-> <<>>, sources |-> <<>>, detail |-> ""]

\* answer = result.get("answer", "I'm sorry, I couldn't generate an answer.")
DefaultAnswer == <<"s", "o", "r", "r", "y">>

\* history_messages[-10:]
HistoryWindow == 10
LastN(s, n) == SubSeq(s, Max(1, Len(s) - n + 1), Len(s))

----------------------------------------------------------------------------
(* State after construction *)

InitCommon ==
    /\ response = <<>>
    /\ searches = <<>>
    /\ all_query_results = <<>>
    /\ merged_docs = <<>>
    /\ unique_docs = <<>>
    /\ final_docs = <<>>
    /\ context = <<>>
    /\ sources = <<>>
    /\ answer = <<>>
    /\ error = ""
    /\ failed_stage = ""
    /\ http = NoReply
    /\ db_session = FALSE
    /\ db_messages = <<>>
    /\ deletes = 0
    /\ selector = NoSelector
    /\ llm_model = ""
    /\ registry = EmptyRegistry
    /\ tasks = <<>>
    /\ router_reply = NoRequest

\* the service is up, no request has arrived; the collection is seeded with
\* the documents or still empty
Init ==
    /\ InitCommon
    /\ pc = "idle"
    /\ query = <<>>
    /\ messages = <<>>
    /\ state_keys = {}
    /\ rewritten_queries = <<>>
    /\ index \in {Collection(Documents), {}}
    /\ turns = 0

----------------------------------------------------------------------------
(* chat_endpoint, up to the call of the graph *)

\* a pipeline that collects the search results in a module-level list which
\* no invocation clears
ChatBeginWithin_KeepsResults(limit, models) ==
    /\ pc \in {"idle", "replied"}
    /\ turns < limit
    /\ turns' = turns + 1
    /\ \E q \in Queries : query' = q
    /\ \E m \in models : selector' = m
    /\ messages' = LastN(db_messages, HistoryWindow)
    /\ state_keys' = {"query", "messages"}
    /\ pc' = "rewrite_query"
    /\ response' = <<>>
    /\ rewritten_queries' = <<>>
    /\ merged_docs' = <<>>
    /\ unique_docs' = <<>>
    /\ final_docs' = <<>>
    /\ context' = <<>>
    /\ sources' = <<>>
    /\ answer' = <<>>
    /\ error' = ""
    /\ failed_stage' = ""
    /\ http' = NoReply
    /\ llm_model' = ""
    /\ UNCHANGED <<index, searches, all_query_results, db_session,
                   db_messages, deletes,
                   registry, tasks,
                   router_reply>>

\* Steps 1-3 of chat_endpoint and the inputs of rag_workflow.ainvoke, for the
\* first `limit` requests, whose callers ask for one of `models`. A missing
\* sessions row is added and flushed, not committed: it is committed with the
\* messages in ChatReplies and discarded by the rollback of ChatFails.
ChatBeginWithin(limit, models) ==
    /\ pc \in {"idle", "replied"}
    /\ turns < limit
    /\ turns' = turns + 1
    /\ \E q \in Queries : query' = q
    /\ \E m \in models : selector' = m
    /\ messages' = LastN(db_messages, HistoryWindow)
    /\ state_keys' = {"query", "messages"}
    /\ pc' = "rewrite_query"
    /\ response' = <<>>
    /\ rewritten_queries' = <<>>
    /\ searches' = <<>>
    /\ all_query_results' = <<>>
    /\ merged_docs' = <<>>
    /\ unique_docs' = <<>>
    /\ final_docs' = <<>>
    /\ context' = <<>>
    /\ sources' = <<>>
    /\ answer' = <<>>
    /\ error' = ""
    /\ failed_stage' = ""
    /\ http' = NoReply
    /\ llm_model' = ""
    /\ UNCHANGED <<index, db_session, db_messages, deletes,
                   registry, tasks,
                   router_reply>>

\* requests that name no model
ChatBegin == ChatBeginWithin(MaxTurns, {NoSelector})

----------------------------------------------------------------------------
(* Node 1: rewrite_query *)

\* model_name = state.get("model_name"): None unless the inputs carried it
StateModelName ==
    IF "model_name" \in state_keys THEN selector ELSE NoSelector

\* a graph with an edge from rewrite_query straight to generate_answer
RewriteReturns_SkipsRetrieve(contents) ==
    /\ pc = "rewrite_query"
    /\ \E c \in contents :
         /\ response' = c
         /\ rewritten_queries' = ParseQueries(c, query)
    /\ llm_model' = get_llm(StateModelName)
    /\ state_keys' = state_keys \cup {"rewritten_queries"}
    /\ pc' = "generate_answer"
    /\ UNCHANGED <<query, messages, index, searches, all_query_results,
                   merged_docs, unique_docs, final_docs, context, sources,
                   answer, error, failed_stage, http, db_session, db_messages,
                   turns, deletes,
                   selector,
                   registry, tasks,
                   router_reply>>

\* The model call returned: parse its content. The step is kept for a get_llm
\* that accepts the selector; with get_llm as declared, RewriteRaises is the
\* only outcome of the node, so every run of the code is a run of this model.
RewriteReturns(contents) ==
    /\ pc = "rewrite_query"
    /\ \E c \in contents :
         /\ response' = c
         /\ rewritten_queries' = ParseQueries(c, query)
    /\ llm_model' = get_llm(StateModelName)
    /\ state_keys' = state_keys \cup {"rewritten_queries"}
    /\ pc' = "retrieve"
    /\ UNCHANGED <<query, messages, index, searches, all_query_results,
                   merged_docs, unique_docs, final_docs, context, sources,
                   answer, error, failed_stage, http, db_session, db_messages,
                   turns, deletes,
                   selector,
                   registry, tasks,
                   router_reply>>

\* get_llm(model_name) or chain.ainvoke raised: nothing catches it in the node
RewriteRaises ==
    /\ pc = "rewrite_query"
    /\ \E e \in LlmErrors :
         /\ error' = e
         /\ llm_model' = IF e \in InvokeErrors THEN get_llm(StateModelName)
                                             ELSE llm_model
    /\ failed_stage' = "rewrite_query"
    /\ pc' = "failed"
    /\ UNCHANGED <<query, messages, state_keys, response, rewritten_queries,
                   index, searches, all_query_results, merged_docs,
                   unique_docs, final_docs, context, sources, answer, http,
                   db_session, db_messages, turns, deletes,
                   selector,
                   registry, tasks,
                   router_reply>>

----------------------------------------------------------------------------
(* Node 2: retrieve *)

\* queries = state.get("rewritten_queries", [state["query"]])
RetrieveQueries ==
    IF "rewritten_queries" \in state_keys THEN rewritten_queries ELSE <<query>>

\* the partition of the n-th search call: system first, then session
CallPartition(n) == IF n % 2 = 1 THEN "system" ELSE "session"
CallQuery(n) == (n + 1) \div 2

\* one awaited similarity_search call of the loop over the sub-queries
RetrieveSearch ==
    /\ pc = "retrieve"
    /\ Len(searches) < 2 * Len(RetrieveQueries)
    /\ LET n == Len(searches) + 1
           q == RetrieveQueries[CallQuery(n)]
       IN  searches' = Append(searches,
               [q |-> CallQuery(n),
                partition |-> CallPartition(n),
                docs |-> similarity_search(index, RankMode(q), CallPartition(n))])
    /\ UNCHANGED <<pc, query, messages, state_keys, response, rewritten_queries,
                   index, all_query_results, merged_docs, unique_docs,
                   final_docs, context, sources, answer, error, failed_stage,
                   http, db_session, db_messages, turns, deletes,
                   selector, llm_model,
                   registry, tasks,
                   router_reply>>

\* a retrieve that swallows the error and returns what it has: nothing
RetrieveRaises_Swallowed ==
    /\ pc = "retrieve"
    /\ Len(searches) < 2 * Len(RetrieveQueries) \/ searches = <<>>
    /\ \E e \in StoreErrors : error' = e
    /\ failed_stage' = "retrieve"
    /\ context' = <<>>
    /\ sources' = <<>>
    /\ state_keys' = state_keys \cup {"context", "sources"}
    /\ pc' = "generate_answer"
    /\ UNCHANGED <<query, messages, response, rewritten_queries, index,
                   searches, all_query_results, merged_docs, unique_docs,
                   final_docs, answer, http, db_session, db_messages, turns,
                   deletes,
                   selector, llm_model,
                   registry, tasks,
                   router_reply>>

\* a retrieve that notes the error of a search and goes on with the loop
RetrieveRaises_Retries ==
    /\ pc = "retrieve"
    /\ Len(searches) < 2 * Len(RetrieveQueries) \/ searches = <<>>
    /\ \E e \in StoreErrors : error' = e
    /\ failed_stage' = "retrieve"
    /\ UNCHANGED <<pc, query, messages, state_keys, response,
                   rewritten_queries, index, searches, all_query_results,
                   merged_docs, unique_docs, final_docs, context, sources,
                   answer, http, db_session, db_messages, turns, deletes,
                   selector, llm_model,
                   registry, tasks,
                   router_reply>>

\* PGVector(...) or a similarity_search call raised: the node has no handler
RetrieveRaises ==
    /\ pc = "retrieve"
    /\ Len(searches) < 2 * Len(RetrieveQueries) \/ searches = <<>>
    /\ \E e \in StoreErrors : error' = e
    /\ failed_stage' = "retrieve"
    /\ pc' = "failed"
    /\ UNCHANGED <<query, messages, state_keys, response, rewritten_queries,
                   index, searches, all_query_results, merged_docs,
                   unique_docs, final_docs, context, sources, answer, http,
                   db_session, db_messages, turns, deletes,
                   selector, llm_model,
                   registry, tasks,
                   router_reply>>

\* a retrieve that appends docs_session + docs_system
QueryResults_SessionFirst(log) ==
    [i \in 1..(Len(log) \div 2) |-> log[2 * i].docs \o log[2 * i - 1].docs]

\* all_query_results.append(docs_system + docs_session), per sub-query
QueryResults(log) ==
    [i \in 1..(Len(log) \div 2) |-> log[2 * i - 1].docs \o log[2 * i].docs]

\* a merge that does not wait for the loop: it starts as soon as the two
\* searches of some sub-query are back
RetrieveMerge_Early ==
    /\ pc = "retrieve"
    /\ Len(searches) >= 2 \/ RetrieveQueries = <<>>
    /\ Len(searches) % 2 = 0
    /\ all_query_results' = QueryResults(searches)
    /\ merged_docs' = FairMerge(all_query_results')
    /\ unique_docs' = Deduplicate(merged_docs')
    /\ final_docs' = CapDocs(unique_docs')
    /\ context' = ContextOf(final_docs')
    /\ sources' \in ListsOfSet(SourceSet(final_docs'))
    /\ state_keys' = state_keys \cup {"context", "sources"}
    /\ pc' = "generate_answer"
    /\ UNCHANGED <<query, messages, response, rewritten_queries, index,
                   searches, answer, error, failed_stage, http, db_session,
                   db_messages, turns, deletes,
                   selector, llm_model,
                   registry, tasks,
                   router_reply>>

\* a merge that has nothing to return when no search found anything
RetrieveMerge_NeedsResults ==
    /\ pc = "retrieve"
    /\ Len(searches) = 2 * Len(RetrieveQueries)
    /\ \E n \in 1..Len(searches) : searches[n].docs # <<>>
    /\ all_query_results' = QueryResults(searches)
    /\ merged_docs' = FairMerge(all_query_results')
    /\ unique_docs' = Deduplicate(merged_docs')
    /\ final_docs' = CapDocs(unique_docs')
    /\ context' = ContextOf(final_docs')
    /\ sources' \in ListsOfSet(SourceSet(final_docs'))
    /\ state_keys' = state_keys \cup {"context", "sources"}
    /\ pc' = "generate_answer"
    /\ UNCHANGED <<query, messages, response, rewritten_queries, index,
                   searches, answer, error, failed_stage, http, db_session,
                   db_messages, turns, deletes, selector, llm_model,
                   registry, tasks,
                   router_reply>>

\* the loop is over: fair merge, deduplication, cap, and the node's update
RetrieveMerge ==
    /\ pc = "retrieve"
    /\ Len(searches) = 2 * Len(RetrieveQueries)
    /\ all_query_results' = QueryResults(searches)
    /\ merged_docs' = FairMerge(all_query_results')
    /\ unique_docs' = Deduplicate(merged_docs')
    /\ final_docs' = CapDocs(unique_docs')
    /\ context' = ContextOf(final_docs')
    /\ sources' \in ListsOfSet(SourceSet(final_docs'))
    /\ state_keys' = state_keys \cup {"context", "sources"}
    /\ pc' = "generate_answer"
    /\ UNCHANGED <<query, messages, response, rewritten_queries, index,
                   searches, answer, error, failed_stage, http, db_session,
                   db_messages, turns, deletes,
                   selector, llm_model,
                   registry, tasks,
                   router_reply>>

----------------------------------------------------------------------------
(* Node 3: generate_answer *)

\* a generate_answer that returns {"answer": ..., "context": []}
GenerateReturns_ClearsContext ==
    /\ pc = "generate_answer"
    /\ \E a \in Answers : answer' = a
    /\ llm_model' = get_llm(StateModelName)
    /\ state_keys' = state_keys \cup {"answer"}
    /\ context' = <<>>
    /\ pc' = "END"
    /\ UNCHANGED <<query, messages, response, rewritten_queries, index,
                   searches, all_query_results, merged_docs, unique_docs,
                   final_docs, sources, error, failed_stage, http,
                   db_session, db_messages, turns, deletes,
                   selector,
                   registry, tasks,
                   router_reply>>

\* either branch (with or without history) returns response.content
GenerateReturns ==
    /\ pc = "generate_answer"
    /\ \E a \in Answers : answer' = a
    /\ llm_model' = get_llm(StateModelName)
    /\ state_keys' = state_keys \cup {"answer"}
    /\ pc' = "END"
    /\ UNCHANGED <<query, messages, response, rewritten_queries, index,
                   searches, all_query_results, merged_docs, unique_docs,
                   final_docs, context, sources, error, failed_stage, http,
                   db_session, db_messages, turns, deletes,
                   selector,
                   registry, tasks,
                   router_reply>>

\* a generate_answer that swallows the error and returns the placeholder
GenerateRaises_Swallowed ==
    /\ pc = "generate_answer"
    /\ \E e \in LlmErrors :
         /\ error' = e
         /\ llm_model' = IF e \in InvokeErrors THEN get_llm(StateModelName)
                                             ELSE llm_model
    /\ failed_stage' = "generate_answer"
    /\ answer' = <<>>
    /\ state_keys' = state_keys \cup {"answer"}
    /\ pc' = "END"
    /\ UNCHANGED <<query, messages, response, rewritten_queries, index,
                   searches, all_query_results, merged_docs, unique_docs,
                   final_docs, context, sources, http, db_session, db_messages,
                   turns, deletes,
                   selector,
                   registry, tasks,
                   router_reply>>

\* get_llm(model_name) or chain.ainvoke raised
GenerateRaises ==
    /\ pc = "generate_answer"
    /\ \E e \in LlmErrors :
         /\ error' = e
         /\ llm_model' = IF e \in InvokeErrors THEN get_llm(StateModelName)
                                             ELSE llm_model
    /\ failed_stage' = "generate_answer"
    /\ pc' = "failed"
    /\ UNCHANGED <<query, messages, state_keys, response, rewritten_queries,
                   index, searches, all_query_results, merged_docs,
                   unique_docs, final_docs, context, sources, answer, http,
                   db_session, db_messages, turns, deletes,
                   selector,
                   registry, tasks,
                   router_reply>>

----------------------------------------------------------------------------
(* chat_endpoint, after the graph *)

\* steps 4-5: read the result, store both messages, commit, reply
ChatReplies ==
    /\ pc = "END"
    /\ LET ans == IF "answer" \in state_keys THEN answer ELSE DefaultAnswer
           src == IF "sources" \in state_keys THEN sources ELSE <<>>
       IN  /\ db_messages' = db_messages \o
                 <<[role |-> "user", content |-> query],
                   [role |-> "assistant", content |-> ans]>>
           /\ http' = [status |-> 200, answer |-> ans, sources |-> src,
                       detail |-> ""]
    /\ db_session' = TRUE
    /\ pc' = "replied"
    /\ UNCHANGED <<query, messages, state_keys, response, rewritten_queries,
                   index, searches, all_query_results, merged_docs,
                   unique_docs, final_docs, context, sources, answer, error,
                   failed_stage, turns, deletes,
                   selector, llm_model,
                   registry, tasks,
                   router_reply>>

\* HTTPException(status_code=500, detail=str(e)): one status for every
\* exception, the text is the exception's own
ErrorReply(e) == [status |-> 500, answer |-> <<>>, sources |-> <<>>,
                  detail |-> e]

\* except Exception as e: rollback, HTTPException(500, detail=str(e))
\* a chat_endpoint that commits the user message before it calls the graph,
\* so that its rollback leaves the message stored
ChatFails_KeepsUserMessage ==
    /\ pc = "failed"
    /\ http' = ErrorReply(error)
    /\ pc' = "replied"
    /\ db_messages' = Append(db_messages, [role |-> "user", content |-> query])
    /\ db_session' = TRUE
    /\ UNCHANGED <<query, messages, state_keys, response, rewritten_queries,
                   index, searches, all_query_results, merged_docs,
                   unique_docs, final_docs, context, sources, answer, error,
                   failed_stage, turns, deletes, selector, llm_model,
                   registry, tasks, router_reply>>

ChatFails ==
    /\ pc = "failed"
    /\ http' = ErrorReply(error)
    /\ pc' = "replied"
    /\ UNCHANGED <<query, messages, state_keys, response, rewritten_queries,
                   index, searches, all_query_results, merged_docs,
                   unique_docs, final_docs, context, sources, answer, error,
                   failed_stage, db_session, db_messages, turns, deletes,
                   selector, llm_model,
                   registry, tasks,
                   router_reply>>

\* Another request of the session runs to its commit while this one is in
\* flight or between two requests: its locals are its own, what it shares with
\* this request is the messages table it appends to.
OtherChatCommits(limit) ==
    /\ turns < limit
    /\ turns' = turns + 1
    /\ \E q \in Queries, a \in Answers :
         db_messages' = db_messages \o
             <<[role |-> "user", content |-> q],
               [role |-> "assistant", content |-> a]>>
    /\ db_session' = TRUE
    /\ UNCHANGED <<pc, query, messages, state_keys, response,
                   rewritten_queries, index, searches, all_query_results,
                   merged_docs, unique_docs, final_docs, context, sources,
                   answer, error, failed_stage, http, deletes,
                   selector, llm_model,
                   registry, tasks,
                   router_reply>>

----------------------------------------------------------------------------
(* A dependency that does not answer *)

\* The awaited call of the node (chain.ainvoke, or a similarity_search in its
\* thread) never returns. The awaits carry no timeout and nothing cancels
\* them: the coroutine stays at the await, which no step of the request
\* leaves.
CallNeverReturns ==
    /\ \/ pc \in {"rewrite_query", "generate_answer"}
       \/ pc = "retrieve" /\ Len(searches) < 2 * Len(RetrieveQueries)
    /\ pc' = "waiting"
    /\ UNCHANGED <<query, messages, state_keys, response, rewritten_queries,
                   index, searches, all_query_results, merged_docs,
                   unique_docs, final_docs, context, sources, answer, error,
                   failed_stage, http, db_session, db_messages, turns, deletes,
                   selector, llm_model,
                   registry, tasks,
                   router_reply>>

----------------------------------------------------------------------------
(* delete_file: the vectors of a document are purged while requests run *)

\* DELETE FROM langchain_pg_embedding WHERE cmetadata->>'source' = :filename
DeleteVectors(rows, filename) == {d \in rows : d.source # filename}

DeleteFile ==
    /\ deletes < MaxDeletes
    /\ \E f \in Documents :
         /\ \E d \in index : d.source = f
         /\ index' = DeleteVectors(index, f)
    /\ deletes' = deletes + 1
    /\ UNCHANGED <<pc, query, messages, state_keys, response,
                   rewritten_queries, searches, all_query_results, merged_docs,
                   unique_docs, final_docs, context, sources, answer, error,
                   failed_stage, http, db_session, db_messages, turns,
                   selector, llm_model,
                   registry, tasks,
                   router_reply>>

----------------------------------------------------------------------------
(* process_document: the chunks of a document are added while requests run *)

\* vector_store.add_documents(batch): the documents here have fewer chunks
\* than a batch holds, so one call adds them all. A document that has its
\* rows is registered as processed and skipped.
IngestFile ==
    /\ \E f \in Documents :
         /\ \A d \in index : d.source # f
         /\ index' = index \cup Collection({f})
    /\ UNCHANGED <<pc, query, messages, state_keys, response,
                   rewritten_queries, searches, all_query_results, merged_docs,
                   unique_docs, final_docs, context, sources, answer, error,
                   failed_stage, http, db_session, db_messages, turns, deletes,
                   selector, llm_model,
                   registry, tasks,
                   router_reply>>

----------------------------------------------------------------------------
(* upload_file and process_document: the registry and the chunks of a file *)

\* The model of storage/models.py has no session_id column in
\* document_metadata, while upload_file, process_document and
\* delete_session_files use one: as declared, creating an entry raises
\* TypeError and delete_session_files raises AttributeError. The steps below
\* are kept for a table that has the column; a request that raises before
\* it wrote anything is a stuttering step, so every run of the code is a run
\* of this model.

\* uploads served in a run
MaxUploads == 1

\* uploads of one file served in a run
MaxReuploads == 2

\* batch_size = 50
BatchSize == 50

\* number of chunks the splitter makes of a file
SmallFileChunks == 2
BigFileChunks == 51

NoSession == ""
Sessions == {NoSession, "s1"}

ChunkCount(f) == IF f = "manual.pdf" THEN BigFileChunks ELSE SmallFileChunks

\* the text of the k-th split of the file
SplitText(f, k) == <<"a", k>>

\* f"--- Document: {pdf_file} ---\n"
MarkerLine(f) == <<"--- Document: ", f, " ---", NL>>

\* a loop over the splits that leaves page_content as the splitter made it
Chunk_Unmarked(f, s, k, t) ==
    [id |-> <<t, k>>,
     page_content |-> SplitText(f, k),
     source |-> f,
     session_id |-> s]

\* the k-th split after the loop over the splits, stored by task t: source,
\* session_id when one was given (NoSession: the key is absent), marker line
Chunk(f, s, k, t) ==
    [id |-> <<t, k>>,
     page_content |-> MarkerLine(f) \o SplitText(f, k),
     source |-> f,
     session_id |-> s]

Splits(f, s, t) == [k \in 1..ChunkCount(f) |-> Chunk(f, s, k, t)]

\* for i in range(0, len(splits), batch_size): splits[i:i+batch_size]
NumBatches(n) == (n + BatchSize - 1) \div BatchSize
Batch(splits, b) ==
    SubSeq(splits, (b - 1) * BatchSize + 1, Min(b * BatchSize, Len(splits)))

\* the ids of the registry rows: made by the n-th upload, made by task t,
\* seeded
UploadRowId(n) == <<"upload_file", n>>
TaskRowId(t) == <<"process_document", t>>
SeedRowId == <<"seed_db", 1>>

\* seed_db.py: the entry of a system document, status "processed"
SeededRegistry ==
    [EmptyRegistry EXCEPT ![SYSTEM_DOCS[1]] =
        [id |-> SeedRowId, status |-> "processed", session |-> NoSession]]

HasEntry(f) == registry[f] # NoEntry

\* all the variables of the chat request
chat_vars == <<pc, query, messages, state_keys, response, rewritten_queries,
               searches, all_query_results, merged_docs, unique_docs,
               final_docs, context, sources, answer, error, failed_stage,
               http, db_session, db_messages, turns, deletes, selector,
               llm_model>>

\* upload_file: the entry of the filename is created or reset to processing,
\* committed, and process_document is queued
UploadFileWithin(limit, files, sessions) ==
    /\ Len(tasks) < limit
    /\ \E f \in files, s \in sessions :
         /\ registry' = [registry EXCEPT ![f] =
                IF HasEntry(f)
                THEN [id |-> registry[f].id, status |-> "processing",
                      session |-> s]
                ELSE [id |-> UploadRowId(Len(tasks) + 1),
                      status |-> "processing", session |-> s]]
         /\ tasks' = Append(tasks, [file |-> f, session |-> s, pc |-> "queued",
                                    meta_id |-> NoRowId, added |-> 0,
                                    error |-> ""])
         /\ router_reply' = RouterReply("upload_file", f, "processing", 0)
    /\ UNCHANGED <<chat_vars, index>>

UploadFile == UploadFileWithin(MaxUploads, IngestFiles, Sessions)

\* ingest_pdfs: process_document is called for a file of the documents
\* directory, without a session
IngestPdfs ==
    /\ Len(tasks) < MaxUploads
    /\ \E f \in IngestFiles :
         tasks' = Append(tasks, [file |-> f, session |-> NoSession,
                                 pc |-> "queued", meta_id |-> NoRowId,
                                 added |-> 0, error |-> ""])
    /\ UNCHANGED <<chat_vars, index, registry, router_reply>>

\* the call of task t ended: its locals are gone
Ended(t, how) ==
    [tasks EXCEPT ![t] = [@ EXCEPT !.pc = how, !.meta_id = NoRowId,
                         !.added = 0,
                                   !.error = ""]]

SetTask(t, field, value) == [tasks EXCEPT ![t] = [@ EXCEPT ![field] = value]]

\* lines 252-268 after the entry was read as meta_id: the loader and the
\* splitter returned, or one of them raised (unsupported extension,
\* unreadable file). They touch neither the registry nor the store.
Loaded(t, meta_id) ==
    { [tasks EXCEPT ![t] = [@ EXCEPT !.pc = "storing", !.meta_id = meta_id]],
      [tasks EXCEPT ![t] = [@ EXCEPT !.pc = "failing", !.meta_id = meta_id,
                                     !.error = "ValueError"]] }

\* a process_document without the check of lines 233-236: an entry is
\* ingested whatever its status
TaskStart_NoSkip(t) ==
    /\ tasks[t].pc = "queued"
    /\ HasEntry(tasks[t].file)
    /\ tasks' \in Loaded(t, registry[tasks[t].file].id)
    /\ UNCHANGED <<chat_vars, index, registry, router_reply>>

\* process_document, lines 227-268: an entry that is processed ends the call;
\* a missing entry is created (TypeError with the table as declared); then
\* the file is loaded and split
TaskStart(t) ==
    /\ tasks[t].pc = "queued"
    /\ LET f == tasks[t].file
       IN  IF registry[f].status = "processed"
           THEN /\ tasks' = Ended(t, "skipped")
                /\ UNCHANGED registry
           ELSE IF HasEntry(f)
           THEN /\ tasks' \in Loaded(t, registry[f].id)
                /\ UNCHANGED registry
           ELSE \/ /\ registry' = [registry EXCEPT ![f] =
                          [id |-> TaskRowId(t), status |-> "processing",
                           session |-> tasks[t].session]]
                   /\ tasks' \in Loaded(t, TaskRowId(t))
                \/ /\ tasks' = Ended(t, "raised")
                   /\ UNCHANGED registry
    /\ UNCHANGED <<chat_vars, index, router_reply>>

\* the causes for which vector_store.add_documents raises: the embedding
\* service, the database
AddErrors == {"ConnectError", "OperationalError"}

\* one add_documents(batch) of add_to_vectorstore: the batch is stored and
\* committed, or the call raises
TaskAddBatch(t) ==
    /\ tasks[t].pc = "storing"
    /\ LET f == tasks[t].file
           splits == Splits(f, tasks[t].session, t)
       IN  /\ tasks[t].added < NumBatches(Len(splits))
           /\ \/ /\ index' = index \cup Range(Batch(splits, tasks[t].added + 1))
                 /\ tasks' = SetTask(t, "added", tasks[t].added + 1)
              \/ /\ \E e \in AddErrors :
                      tasks' = [tasks EXCEPT ![t] =
                          [@ EXCEPT !.pc = "failing", !.error = e]]
                 /\ UNCHANGED index
    /\ UNCHANGED <<chat_vars, registry, router_reply>>

\* the row that meta was loaded from is still there
MetaRowExists(t) == registry[tasks[t].file].id = tasks[t].meta_id

\* lines 290-293: meta.status = "processed", merge, commit. The UPDATE of a
\* row that a delete removed matches nothing: the flush raises and the
\* except branch runs.
TaskMarkProcessed(t) ==
    /\ tasks[t].pc = "storing"
    /\ tasks[t].added = NumBatches(ChunkCount(tasks[t].file))
    /\ IF MetaRowExists(t)
       THEN /\ registry' = [registry EXCEPT ![tasks[t].file].status = "processed"]
            /\ tasks' = Ended(t, "done")
       ELSE /\ tasks' = [tasks EXCEPT ![t] =
                   [@ EXCEPT !.pc = "failing", !.error = "StaleDataError"]]
            /\ UNCHANGED registry
    /\ UNCHANGED <<chat_vars, index, router_reply>>

\* lines 296-302: meta.status = "error", merge, commit. The commit is not
\* guarded: it raises when the row is gone, and when the database that made
\* the store fail is still unreachable; the task then ends with the entry as
\* it was.
TaskMarkError(t) ==
    /\ tasks[t].pc = "failing"
    /\ \/ /\ MetaRowExists(t)
          /\ registry' = [registry EXCEPT ![tasks[t].file].status = "error"]
          /\ tasks' = Ended(t, "done")
       \/ /\ ~MetaRowExists(t) \/ tasks[t].error = "OperationalError"
          /\ tasks' = Ended(t, "raised")
          /\ UNCHANGED registry
    /\ UNCHANGED <<chat_vars, index, router_reply>>

TaskFinished(t) == tasks[t].pc \in {"skipped", "done", "raised"}

----------------------------------------------------------------------------
(* delete_file and delete_session_files *)

\* DELETE ... WHERE cmetadata->>'session_id' = :session_id
DeleteSessionVectors(rows, session_id) ==
    {d \in rows : d.session_id # session_id}

\* a delete_file whose vector DELETE failed and was swallowed by the except
\* of lines 126-127, and whose registry DELETE was committed all the same
DeleteDocument_EntryOnly ==
    /\ \E f \in IngestFiles :
         /\ HasEntry(f)
         /\ registry' = [registry EXCEPT ![f] = NoEntry]
         /\ router_reply' = RouterReply("delete_file", f, "success", 1)
    /\ UNCHANGED <<chat_vars, index, tasks>>

\* delete_file: the vectors and the entry of a registered filename go in
\* one transaction; for an unknown filename the reply is an error and nothing
\* changes
DeleteDocument ==
    /\ \E f \in IngestFiles :
         IF HasEntry(f)
         THEN /\ index' = DeleteVectors(index, f)
              /\ registry' = [registry EXCEPT ![f] = NoEntry]
              /\ router_reply' = RouterReply("delete_file", f, "success", 1)
         ELSE /\ router_reply' = RouterReply("delete_file", f, "error", 0)
              /\ UNCHANGED <<index, registry>>
    /\ UNCHANGED <<chat_vars, tasks>>

\* the entries that delete_session_files selects
SessionEntries(s) == {f \in IngestFiles : HasEntry(f) /\ registry[f].session = s}

\* delete_session_files: the vectors that carry the session id and the
\* entries of the session go in one transaction; without entries the reply is
\* a count of 0 and nothing changes
DeleteSessionFiles ==
    /\ \E s \in Sessions \ {NoSession} :
         /\ router_reply' = RouterReply("delete_session_files", s, "success",
                                        Cardinality(SessionEntries(s)))
         /\ IF SessionEntries(s) # {}
            THEN /\ index' = DeleteSessionVectors(index, s)
                 /\ registry' = [f \in IngestFiles |->
                        IF f \in SessionEntries(s) THEN NoEntry
                        ELSE registry[f]]
            ELSE UNCHANGED <<index, registry>>
    /\ UNCHANGED <<chat_vars, tasks>>

----------------------------------------------------------------------------
(* Specifications *)

\* the service end to end
Next ==
    \/ ChatBegin
    \/ RewriteReturns(Texts(PipeAlphabet, MaxPipeRespLen))
    \/ RewriteRaises
    \/ RetrieveSearch
    \/ RetrieveRaises
    \/ RetrieveMerge
    \/ GenerateReturns
    \/ GenerateRaises
    \/ ChatReplies
    \/ ChatFails
    \/ DeleteFile

Spec == Init /\ [][Next]_vars

\* the service with dependencies that may not answer
NextWait ==
    \/ Next
    \/ CallNeverReturns

SpecWait == Init /\ [][NextWait]_vars

\* rewrite_query alone, on every response up to MaxRespLen
InitRewrite ==
    /\ InitCommon
    /\ pc = "rewrite_query"
    /\ query \in Queries
    /\ messages = <<>>
    /\ state_keys = {"query", "messages"}
    /\ rewritten_queries = <<>>
    /\ index = {}
    /\ turns = 1

NextRewrite ==
    \/ RewriteReturns(Texts(Alphabet, MaxRespLen))
    \/ RewriteRaises

SpecRewrite == InitRewrite /\ [][NextRewrite]_vars

\* retrieve alone, on drawn sub-queries and collections
InitRetrieve ==
    /\ InitCommon
    /\ pc = "retrieve"
    /\ query = <<"a">>
    /\ messages = <<>>
    /\ \/ /\ state_keys = {"query", "messages", "rewritten_queries"}
          /\ rewritten_queries \in SeqsUpTo(SubQuerySamples, MaxSubQueries)
       \/ /\ state_keys = {"query", "messages"}
          /\ rewritten_queries = <<>>
    /\ index \in {Collection(D) : D \in SUBSET Documents}
    /\ turns = 1

NextRetrieve ==
    \/ RetrieveSearch
    \/ RetrieveRaises
    \/ RetrieveMerge
    \/ DeleteFile

SpecRetrieve == InitRetrieve /\ [][NextRetrieve]_vars

\* retrieve while documents are deleted and ingested
MaxFanOut == 2

InitFanOut ==
    /\ InitCommon
    /\ pc = "retrieve"
    /\ query = <<"a">>
    /\ messages = <<>>
    /\ state_keys = {"query", "messages", "rewritten_queries"}
    /\ rewritten_queries \in SeqsUpTo(SubQuerySamples, MaxFanOut)
    /\ index \in {Collection(D) : D \in SUBSET Documents}
    /\ turns = 1

NextFanOut ==
    \/ RetrieveSearch
    \/ RetrieveMerge
    \/ DeleteFile
    \/ IngestFile

SpecFanOut == InitFanOut /\ [][NextFanOut]_vars

\* uploads, their background tasks and deletions, in every interleaving. The
\* registry is empty or seeded with the system document (seed_db.py).
InitIngest ==
    /\ response = <<>>
    /\ searches = <<>>
    /\ all_query_results = <<>>
    /\ merged_docs = <<>>
    /\ unique_docs = <<>>
    /\ final_docs = <<>>
    /\ context = <<>>
    /\ sources = <<>>
    /\ answer = <<>>
    /\ error = ""
    /\ failed_stage = ""
    /\ http = NoReply
    /\ db_session = FALSE
    /\ db_messages = <<>>
    /\ deletes = 0
    /\ selector = NoSelector
    /\ llm_model = ""
    /\ pc = "idle"
    /\ query = <<>>
    /\ messages = <<>>
    /\ state_keys = {}
    /\ rewritten_queries = <<>>
    /\ turns = 0
    /\ index = {}
    /\ registry \in {EmptyRegistry, SeededRegistry}
    /\ tasks = <<>>
    /\ router_reply = NoRequest

NextIngest ==
    \/ UploadFile
    \/ IngestPdfs
    \/ \E t \in 1..Len(tasks) : TaskStart(t)
    \/ \E t \in 1..Len(tasks) : TaskAddBatch(t)
    \/ \E t \in 1..Len(tasks) : TaskMarkProcessed(t)
    \/ \E t \in 1..Len(tasks) : TaskMarkError(t)
    \/ DeleteDocument
    \/ DeleteSessionFiles

SpecIngest == InitIngest /\ [][NextIngest]_vars

\* one file uploaded again and again, each upload with its background task,
\* and deleted
ReuploadFile == UploadFileWithin(MaxReuploads, {SYSTEM_DOCS[1]}, {NoSession})

NextReupload ==
    \/ ReuploadFile
    \/ \E t \in 1..Len(tasks) : TaskStart(t)
    \/ \E t \in 1..Len(tasks) : TaskAddBatch(t)
    \/ \E t \in 1..Len(tasks) : TaskMarkProcessed(t)
    \/ \E t \in 1..Len(tasks) : TaskMarkError(t)
    \/ DeleteDocument

SpecReupload == InitIngest /\ [][NextReupload]_vars

\* several requests of one session, one after the other and overlapping, each
\* naming a model or none
MaxSessionTurns == 2
MaxSessionRespLen == 1

InitSession ==
    /\ InitCommon
    /\ pc = "idle"
    /\ query = <<>>
    /\ messages = <<>>
    /\ state_keys = {}
    /\ rewritten_queries = <<>>
    /\ index = Collection(Documents)
    /\ turns = 0

NextSession ==
    \/ ChatBeginWithin(MaxSessionTurns, Selectors)
    \/ OtherChatCommits(MaxSessionTurns)
    \/ RewriteReturns(Texts(PipeAlphabet, MaxSessionRespLen))
    \/ RewriteRaises
    \/ RetrieveSearch
    \/ RetrieveRaises
    \/ RetrieveMerge
    \/ GenerateReturns
    \/ GenerateRaises
    \/ ChatReplies
    \/ ChatFails

SpecSession == InitSession /\ [][NextSession]_vars

----------------------------------------------------------------------------
(* Properties *)

\* retrieve has returned its update
Retrieved == "context" \in state_keys

\* positions (i, j): element i of result list j
ResultPositions(R) ==
    {p \in (1..(2 * SearchK)) \X (1..Len(R)) : p[1] <= Len(R[p[2]])}

\* the place of element i of list j in a round-robin over the lists: the
\* number of positions of an earlier round, or of the same round and a list
\* not after j
RoundRobinPlace(R, i, j) ==
    Cardinality({p \in ResultPositions(R) :
                    p[1] < i \/ (p[1] = i /\ p[2] <= j)})

\* C1: the merged sequence is the round-robin interleave of the per-sub-query
\* result lists: it has one place for every element of every list, and
\* element i of list j stands after all elements of earlier rounds and after
\* the round-i elements of the lists before j.
C1_MergeIsRoundRobin ==
    Retrieved =>
        /\ Len(merged_docs) = Cardinality(ResultPositions(all_query_results))
        /\ \A p \in ResultPositions(all_query_results) :
              merged_docs[RoundRobinPlace(all_query_results, p[1], p[2])]
                  = all_query_results[p[2]][p[1]]

\* several non-empty lists of unequal length were merged
C1_Witness ==
    /\ Retrieved
    /\ Len(all_query_results) >= 2
    /\ \E j, k \in 1..Len(all_query_results) :
          /\ Len(all_query_results[j]) > 0
          /\ Len(all_query_results[j]) < Len(all_query_results[k])

\* places of the merged sequence that hold the first occurrence of their text
FirstOccurrences(M) ==
    {p \in 1..Len(M) : \A o \in 1..(p - 1) : M[o].page_content # M[p].page_content}

\* C2: the deduplicated sequence has no two chunks of equal text, holds every
\* text of the merged sequence, and is the subsequence of the first
\* occurrences in merged order.
C2_DedupKeepsFirstOccurrences ==
    Retrieved =>
        /\ \A a, b \in 1..Len(unique_docs) :
              a # b => unique_docs[a].page_content # unique_docs[b].page_content
        /\ {merged_docs[p].page_content : p \in 1..Len(merged_docs)}
              = {unique_docs[k].page_content : k \in 1..Len(unique_docs)}
        /\ Len(unique_docs) = Cardinality(FirstOccurrences(merged_docs))
        /\ \A p \in FirstOccurrences(merged_docs) :
              unique_docs[Cardinality({o \in FirstOccurrences(merged_docs) : o <= p})]
                  = merged_docs[p]

\* two different rows of equal text were merged, and one was dropped
C2_Witness ==
    /\ Retrieved
    /\ Len(unique_docs) < Len(merged_docs)
    /\ \E a, b \in 1..Len(merged_docs) :
          /\ a < b
          /\ merged_docs[a].id # merged_docs[b].id
          /\ merged_docs[a].page_content = merged_docs[b].page_content

\* C3: the context is the texts of the first min(12, n) chunks of the n
\* deduplicated chunks; it never has more than 12 entries.
C3_ContextIsCappedPrefix ==
    Retrieved =>
        /\ Len(context) <= 12
        /\ Len(context) = Min(12, Len(unique_docs))
        /\ \A k \in 1..Len(context) : context[k] = unique_docs[k].page_content

\* more than 12 distinct chunks were found and 12 were kept
C3_Witness ==
    /\ Retrieved
    /\ Len(unique_docs) > 12
    /\ Len(context) = 12

\* C4: sources holds exactly the sources of the chunks of the capped context,
\* each once.
C4_SourcesAreContextSources ==
    Retrieved =>
        /\ Range(sources) = {final_docs[k].source : k \in 1..Len(final_docs)}
        /\ Len(sources) = Cardinality(Range(sources))
        /\ Len(final_docs) = Len(context)

\* several context chunks share a document, and several documents are cited
C4_Witness ==
    /\ Retrieved
    /\ Len(sources) >= 2
    /\ \E a, b \in 1..Len(final_docs) :
          a # b /\ final_docs[a].source = final_docs[b].source

\* C5: a system search returns only rows of allowlisted documents, a session
\* search only rows of other documents, and the two searches of one
\* sub-query return no row in common.
C5_PartitionFilter ==
    /\ \A n \in 1..Len(searches) : \A k \in 1..Len(searches[n].docs) :
          IF searches[n].partition = "system"
          THEN searches[n].docs[k].source \in Range(SYSTEM_DOCS)
          ELSE searches[n].docs[k].source \notin Range(SYSTEM_DOCS)
    /\ \A n \in 1..Len(searches) :
          (n % 2 = 0) =>
              Range(searches[n - 1].docs) \cap Range(searches[n].docs) = {}

\* both searches of a sub-query returned rows
C5_Witness ==
    \E n \in 1..Len(searches) :
        /\ n % 2 = 0
        /\ searches[n - 1].partition = "system"
        /\ searches[n].partition = "session"
        /\ searches[n - 1].docs # <<>>
        /\ searches[n].docs # <<>>

\* rewrite_query has returned its update
Rewritten == "rewritten_queries" \in state_keys

\* the response has no line with a character that is not whitespace
ParsesToZeroLines(content) == \A i \in 1..Len(content) : content[i] \in Whitespace

\* C6: when the response is empty or whitespace only, rewritten_queries is
\* the one-element sequence holding the original query, unmodified.
C6_FallbackIsOriginalQuery ==
    (Rewritten /\ ParsesToZeroLines(response)) => rewritten_queries = <<query>>

\* a whitespace-only response met a query that cleaning would change
C6_Witness ==
    /\ Rewritten
    /\ response # <<>>
    /\ ParsesToZeroLines(response)
    /\ query = <<SPACE, "a", COMMA>>
    /\ rewritten_queries = <<query>>

\* C7: a failure of the decomposition model call is recovered inside the
\* Decomposer and never ends the invocation.
C7_DecompositionFailureRecovered == failed_stage # "rewrite_query"

\* the prompt of rewrite_query asks for 1-3 queries
MaxDecomposed == 3

\* C8: the Decomposer produces at least 1 and at most 3 sub-queries.
C8_OneToThreeSubQueries ==
    Rewritten => Len(rewritten_queries) \in 1..MaxDecomposed

\* C9: no sub-query is the empty string (stated for non-empty queries, so
\* that the fallback cannot be what yields it).
C9_NoEmptySubQuery ==
    (Rewritten /\ query # <<>>) =>
        \A i \in 1..Len(rewritten_queries) : rewritten_queries[i] # <<>>

\* C10: when a search raises during retrieve, generate_answer does not run,
\* nothing is answered, and the reply of the endpoint is the error response
\* that carries the error text.
C10_RetrievalFailureSurfaced ==
    failed_stage = "retrieve" =>
        /\ pc \in {"failed", "replied"}
        /\ "answer" \notin state_keys
        /\ "context" \notin state_keys
        /\ error \in StoreErrors
        /\ pc = "replied" =>
              /\ http.status = 500
              /\ http.detail = error
              /\ http.answer = <<>>

\* a search raised after an earlier one had returned, and the caller was told
C10_Witness ==
    /\ failed_stage = "retrieve"
    /\ Len(searches) >= 1
    /\ pc = "replied"
    /\ http.status = 500

----------------------------------------------------------------------------
(* Failure of the generation model call *)

\* C11: when the model call of generate_answer fails, the invocation ends in
\* an error: no answer is written to the state and the caller gets the HTTP
\* 500 that carries the error, never a successful reply with an empty or
\* placeholder answer.
C11_GenerationFailureSurfaced ==
    failed_stage = "generate_answer" =>
        /\ pc \in {"failed", "replied"}
        /\ "answer" \notin state_keys
        /\ error \in LlmErrors
        /\ pc = "replied" =>
              /\ http.status = 500
              /\ http.detail = error
              /\ http.answer = <<>>

C11_Witness ==
    /\ failed_stage = "generate_answer"
    /\ "context" \in state_keys
    /\ error \in InvokeErrors
    /\ pc = "replied"
    /\ http.status = 500

----------------------------------------------------------------------------
(* Kinds of surfaced errors *)

\* the causes the caller has to tell apart: the vector store unreachable
\* (OperationalError), the model backend unreachable (ConnectError), the
\* named model unknown to the backend (ResponseError)
SurfacedCauses == StoreErrors \cup InvokeErrors

\* what chat_endpoint itself decides about a failure reply: its status
ReplyKind(reply) == reply.status

\* C12: the error surfaced to the caller has a distinct kind for each cause:
\* the reply to a failure of one cause has a kind that the reply to no other
\* cause has.
C12_DistinctErrorKinds ==
    (pc = "replied" /\ failed_stage # "" /\ error \in SurfacedCauses) =>
        \A e \in SurfacedCauses \ {error} :
            ReplyKind(ErrorReply(e)) # ReplyKind(http)

----------------------------------------------------------------------------
(* Order of the stages *)

\* the node is entered by this step
Enters(node) == pc # node /\ pc' = node

\* C13: within one invocation the stages run in the fixed order
\* rewrite_query, retrieve, generate_answer. A stage is entered only from its
\* predecessor, with the predecessor's output in the state and its own output
\* not yet there, so no stage is entered twice and none is skipped; the graph
\* ends only after generate_answer has written the answer.
C13_StagesInFixedOrder ==
    [][ /\ Enters("rewrite_query") =>
              /\ pc \in {"idle", "replied"}
              /\ state_keys' = {"query", "messages"}
        /\ Enters("retrieve") =>
              /\ pc = "rewrite_query"
              /\ "rewritten_queries" \in state_keys'
              /\ "context" \notin state_keys'
        /\ Enters("generate_answer") =>
              /\ pc = "retrieve"
              /\ {"rewritten_queries", "context", "sources"} \subseteq state_keys'
              /\ "answer" \notin state_keys'
        /\ Enters("END") =>
              /\ pc = "generate_answer"
              /\ "answer" \in state_keys'
        /\ pc \in {"rewrite_query", "retrieve", "generate_answer"} =>
              pc' \in {pc, "failed",
                       CASE pc = "rewrite_query" -> "retrieve"
                         [] pc = "retrieve" -> "generate_answer"
                         [] pc = "generate_answer" -> "END"}
      ]_vars

C13_Witness ==
    /\ pc = "END"
    /\ state_keys = {"query", "messages", "rewritten_queries", "context",
                     "sources", "answer"}
    /\ Len(searches) = 2 * Len(rewritten_queries)
    /\ failed_stage = ""

----------------------------------------------------------------------------
(* The join before the merge *)

\* C14: the merge, deduplication and cap start only after both partition
\* searches of every sub-query have returned. Until then nothing is merged;
\* once retrieve has returned, the merged lists are one per sub-query, each
\* the system results followed by the session results of that sub-query.
C14_MergeAfterAllSearches ==
    /\ ~Retrieved =>
          /\ all_query_results = <<>>
          /\ merged_docs = <<>>
          /\ unique_docs = <<>>
          /\ final_docs = <<>>
    /\ Retrieved =>
          /\ Len(searches) = 2 * Len(RetrieveQueries)
          /\ Len(all_query_results) = Len(RetrieveQueries)
          /\ \A i \in 1..Len(RetrieveQueries) :
                /\ searches[2 * i - 1].q = i
                /\ searches[2 * i].q = i
                /\ all_query_results[i] =
                       searches[2 * i - 1].docs \o searches[2 * i].docs

C14_Witness ==
    /\ Retrieved
    /\ Len(RetrieveQueries) >= 2
    /\ deletes = 1
    /\ all_query_results[1] # <<>>
    /\ all_query_results[Len(RetrieveQueries)] # all_query_results[1]

----------------------------------------------------------------------------
(* Statelessness of the invocations *)

\* the result of the pipeline as a function of what this invocation was given
\* and was answered: the sources of the capped, deduplicated fair merge of the
\* logged search results
SourcesFrom(log) ==
    SourceSet(CapDocs(Deduplicate(FairMerge(QueryResults(log)))))

InFlight == pc \in {"rewrite_query", "retrieve", "generate_answer", "END"}

\* C15: invocations are stateless. An invocation starts from a state that
\* holds its query and the stored history and nothing of an earlier
\* invocation; while it is in flight no other request changes its inputs or
\* what it has collected; and its reply is a function of its own query, of the
\* model's responses and of the search results of this invocation.
C15_InvocationsAreStateless ==
    /\ [][ Enters("rewrite_query") =>
              /\ state_keys' = {"query", "messages"}
              /\ messages' = LastN(db_messages, HistoryWindow)
              /\ response' = <<>> /\ rewritten_queries' = <<>>
              /\ searches' = <<>> /\ all_query_results' = <<>>
              /\ merged_docs' = <<>> /\ unique_docs' = <<>>
              /\ final_docs' = <<>> /\ context' = <<>>
              /\ sources' = <<>> /\ answer' = <<>>
       ]_vars
    /\ [][ (InFlight /\ db_messages' # db_messages /\ pc' # "replied") =>
              UNCHANGED <<pc, query, messages, state_keys, response,
                          rewritten_queries, searches, all_query_results,
                          merged_docs, unique_docs, final_docs, context,
                          sources, answer, error, failed_stage, http>>
       ]_vars
    /\ [](  (pc = "replied" /\ http.status = 200) =>
              /\ rewritten_queries = ParseQueries(response, query)
              /\ Len(searches) = 2 * Len(rewritten_queries)
              /\ http.answer = answer
              /\ Range(http.sources) = SourcesFrom(searches)
              /\ Len(http.sources) = Cardinality(SourcesFrom(searches)) )

\* a second request has been answered after an overlapping one committed
C15_Witness ==
    /\ turns = 2
    /\ pc = "replied"
    /\ http.status = 200
    /\ Len(db_messages) = 4
    /\ Len(messages) = 0
    /\ http.sources # <<>>

----------------------------------------------------------------------------
(* The model selector *)

\* the model the invocation is to use: the selector's, the default without one
SelectedModel == IF selector = NoSelector THEN MODEL_NAME ELSE selector

\* C16: the model that rewrite_query and generate_answer call is the one the
\* invocation's selector names, the default when it names none: the selector
\* is in the state the stages read, and every model call of the invocation
\* goes to the selected model.
C16_SelectorNamesTheModel ==
    /\ (InFlight /\ selector # NoSelector) =>
          /\ "model_name" \in state_keys
          /\ StateModelName = selector
    /\ llm_model # "" => llm_model = SelectedModel

----------------------------------------------------------------------------
(* Termination of an invocation *)

\* no request is in progress
Done == pc \in {"idle", "replied"}

\* the steps of the request in progress
InvocationStep ==
    \/ RewriteReturns(Texts(PipeAlphabet, MaxPipeRespLen))
    \/ RewriteRaises
    \/ RetrieveSearch
    \/ RetrieveRaises
    \/ RetrieveMerge
    \/ GenerateReturns
    \/ GenerateRaises
    \/ ChatReplies
    \/ ChatFails

\* C17: every invocation ends, with an answer or a surfaced failure, even
\* when a dependency call never returns: a request that has not been answered
\* always has a step of its own to take.
C17_InvocationNeverStuck == Done \/ ENABLED InvocationStep

----------------------------------------------------------------------------
(* Idempotence of the deduplication *)

\* the sequences of chunks retrieve has at hand: the merged list, every
\* sub-query's result list, the capped list
DedupInputs == {merged_docs, final_docs} \cup Range(all_query_results)

\* C18: deduplication is idempotent: the deduplicated list of retrieve is left
\* unchanged by a second deduplication, and so is the deduplication of every
\* other sequence of chunks of the invocation.
C18_DedupIdempotent ==
    Retrieved =>
        /\ Deduplicate(unique_docs) = unique_docs
        /\ \A docs \in DedupInputs :
              Deduplicate(Deduplicate(docs)) = Deduplicate(docs)

C18_Witness ==
    /\ Retrieved
    /\ Len(unique_docs) >= 3
    /\ Len(merged_docs) >= Len(unique_docs) + 2
    /\ \E docs \in Range(all_query_results) :
          Len(Deduplicate(docs)) \in 2..(Len(docs) - 1)

----------------------------------------------------------------------------
(* Every sub-query is represented in the context *)

\* all the chunks of a result list are chunks of the document f
OnlyChunksOf(docs, f) ==
    /\ docs # <<>>
    /\ \A k \in 1..Len(docs) : MetadataSource(docs[k]) = f

SessionDocs == Documents \ Range(SYSTEM_DOCS)

\* C19: with at most 12 sub-queries, the text of the top-ranked result of
\* every sub-query that found something is in the final context, and sources
\* has the source of a chunk of the context with that text. So when the first
\* sub-query found chunks of one system document only and the second chunks
\* of one session document only, both documents are in sources.
C19_TopResultsRepresented ==
    (Retrieved /\ Len(all_query_results) <= FinalCap) =>
        /\ \A i \in 1..Len(all_query_results) :
              all_query_results[i] # <<>> =>
                  LET top == all_query_results[i][1]
                  IN  /\ top.page_content \in Range(context)
                      /\ \E k \in 1..Len(final_docs) :
                            /\ final_docs[k].page_content = top.page_content
                            /\ MetadataSource(final_docs[k]) \in Range(sources)
        /\ Len(all_query_results) >= 2 =>
              \A f \in Range(SYSTEM_DOCS), g \in SessionDocs :
                  ( /\ OnlyChunksOf(all_query_results[1], f)
                    /\ OnlyChunksOf(all_query_results[2], g) )
                  => {f, g} \subseteq Range(sources)

\* the first sub-query found chunks of the FAQ only, the second of the notes
\* only
C19_Witness ==
    /\ Retrieved
    /\ Len(all_query_results) = 2
    /\ OnlyChunksOf(all_query_results[1], SYSTEM_DOCS[1])
    /\ OnlyChunksOf(all_query_results[2], SessionDoc)
    /\ Len(unique_docs) < Len(merged_docs)

----------------------------------------------------------------------------
(* The searches of retrieve *)

\* C20: retrieve searches for the elements of rewritten_queries in order,
\* equal elements included: the system partition, then the session partition
\* of each, once. The n-th search is for element (n + 1) \div 2; there are
\* never more than two per element, exactly 2n when retrieve has returned,
\* and none after a search has failed.
C20_TwoSearchesPerSubQuery ==
    /\ [](  /\ Len(searches) <= 2 * Len(RetrieveQueries)
            /\ \A n \in 1..Len(searches) :
                  /\ searches[n].q = (n + 1) \div 2
                  /\ searches[n].partition =
                         (IF n % 2 = 1 THEN "system" ELSE "session")
            /\ Retrieved => Len(searches) = 2 * Len(RetrieveQueries)
            /\ failed_stage = "retrieve" => ~Retrieved )
    /\ [][ /\ Len(searches') \in {Len(searches), Len(searches) + 1}
           /\ SubSeq(searches', 1, Len(searches)) = searches
           /\ failed_stage = "retrieve" => searches' = searches
       ]_vars

\* the third search failed; the first two sub-queries are the same text
C20_Witness ==
    /\ failed_stage = "retrieve"
    /\ Len(searches) = 3
    /\ Len(rewritten_queries) >= 2
    /\ rewritten_queries[1] = rewritten_queries[2]
    /\ searches[3].q = 2

----------------------------------------------------------------------------
(* The result list of a sub-query *)

IsSystemChunk(doc) == MetadataSource(doc) \in Range(SYSTEM_DOCS)

\* C21: the result list of a sub-query is its system results followed by its
\* session results, each part at most 5 chunks in the order the search
\* returned them: at most 10 chunks, and no session chunk before a system
\* chunk.
C21_SystemThenSession ==
    Retrieved =>
        \A i \in 1..Len(all_query_results) :
            LET res == all_query_results[i]
                sys == searches[2 * i - 1].docs
                ses == searches[2 * i].docs
            IN  /\ Len(sys) <= SearchK
                /\ Len(ses) <= SearchK
                /\ Len(res) = Len(sys) + Len(ses)
                /\ Len(res) <= 2 * SearchK
                /\ SubSeq(res, 1, Len(sys)) = sys
                /\ SubSeq(res, Len(sys) + 1, Len(res)) = ses
                /\ \A j, k \in 1..Len(res) :
                      (j < k /\ IsSystemChunk(res[k])) => IsSystemChunk(res[j])

C21_Witness ==
    /\ Retrieved
    /\ \E i \in 1..Len(all_query_results) :
          /\ Len(all_query_results[i]) = 2 * SearchK
          /\ IsSystemChunk(all_query_results[i][SearchK])
          /\ ~IsSystemChunk(all_query_results[i][SearchK + 1])

----------------------------------------------------------------------------
(* Searches that find nothing *)

RECURSIVE SumLen(_)
SumLen(lists) ==
    IF lists = <<>> THEN 0 ELSE Len(Head(lists)) + SumLen(Tail(lists))

AllSearchesEmpty == \A n \in 1..Len(searches) : searches[n].docs = <<>>

\* C22: a search that finds nothing is not an error. When the last search
\* has returned, retrieve can finish whatever the searches found; it returns
\* without a failure, the merged list has the chunks of the non-empty lists
\* and nothing for the empty ones, and when every search was empty the
\* context and the sources are empty and generate_answer is next.
C22_EmptySearchIsNoError ==
    /\ (pc = "retrieve" /\ Len(searches) = 2 * Len(RetrieveQueries)) =>
          ENABLED RetrieveMerge
    /\ Retrieved =>
          /\ failed_stage = ""
          /\ pc \notin {"retrieve", "failed"}
          /\ Len(merged_docs) = SumLen(all_query_results)
          /\ AllSearchesEmpty =>
                /\ context = <<>>
                /\ sources = <<>>
                /\ {"context", "sources"} \subseteq state_keys

C22_Witness ==
    /\ Retrieved
    /\ Len(searches) >= 4
    /\ AllSearchesEmpty
    /\ pc = "generate_answer"
    /\ context = <<>>

----------------------------------------------------------------------------
(* What a stage writes *)

\* the step is the return of the node
Returns(node, next) == pc = node /\ pc' = next

\* C23: a stage updates only its own fields of the state. rewrite_query
\* writes rewritten_queries, retrieve writes context and sources,
\* generate_answer writes answer; a step that is not the return of a node
\* writes no field; query, history and model selector keep from the start to
\* the end of the invocation the values they had at its start.
C23_StagesWriteOwnFields ==
    [][ /\ ~Enters("rewrite_query") =>
              UNCHANGED <<query, messages, selector>>
        /\ Returns("rewrite_query", "retrieve") =>
              /\ state_keys' = state_keys \cup {"rewritten_queries"}
              /\ UNCHANGED <<context, sources, answer>>
        /\ Returns("retrieve", "generate_answer") =>
              /\ state_keys' = state_keys \cup {"context", "sources"}
              /\ UNCHANGED <<rewritten_queries, answer>>
        /\ Returns("generate_answer", "END") =>
              /\ state_keys' = state_keys \cup {"answer"}
              /\ UNCHANGED <<rewritten_queries, context, sources>>
        /\ ( /\ InFlight
             /\ ~Returns("rewrite_query", "retrieve")
             /\ ~Returns("retrieve", "generate_answer")
             /\ ~Returns("generate_answer", "END") ) =>
              UNCHANGED <<state_keys, rewritten_queries, context, sources,
                          answer>>
      ]_vars

\* a request with history and a selector has run through the three stages
C23_Witness ==
    /\ pc = "END"
    /\ selector # NoSelector
    /\ messages # <<>>
    /\ rewritten_queries # <<>>
    /\ context # <<>>
    /\ "answer" \in state_keys

----------------------------------------------------------------------------
(* Ingestion: the chunks and the registry *)

IsPrefix(p, q) == Len(p) <= Len(q) /\ SubSeq(q, 1, Len(p)) = p

\* the task whose add_documents stored the chunk
StoredBy(d) == tasks[d.id[1]]

\* C24: every chunk that process_document stored has the filename of its
\* ingestion as source, the session id of the ingestion when one was given,
\* and a text that starts with the marker line naming that filename
C24_ChunksCarryOwner ==
    \A d \in index :
        /\ d.source = StoredBy(d).file
        /\ StoredBy(d).session # NoSession
             => d.session_id = StoredBy(d).session
        /\ IsPrefix(MarkerLine(StoredBy(d).file), d.page_content)
        /\ Len(d.page_content) > Len(MarkerLine(StoredBy(d).file))

\* a session upload was ingested to the end and its chunks are stored
C24_Witness ==
    \E t \in 1..Len(tasks) :
        /\ tasks[t].pc = "done"
        /\ tasks[t].session # NoSession
        /\ registry[tasks[t].file].status = "processed"
        /\ \E d \in index : d.id[1] = t /\ d.session_id = tasks[t].session

\* the call of task t passes its registry check in this step
Checks(t) == tasks[t].pc = "queued" /\ tasks'[t].pc # "queued"

\* C25: a process_document that finds the entry of its filename processed
\* adds no chunk and leaves the entry as it is, in the step and ever after
C25_ProcessedIsSkipped ==
    /\ [][\A t \in 1..Len(tasks) :
            Checks(t) /\ registry[tasks[t].file].status = "processed"
              => /\ tasks'[t].pc = "skipped"
                 /\ index' = index
                 /\ registry' = registry]_vars
    /\ [](\A t \in 1..Len(tasks) :
            tasks[t].pc = "skipped" => ~(\E d \in index : d.id[1] = t))

\* a second call for a file found it processed by the first, whose chunks
\* are stored
C25_Witness ==
    \E t, u \in 1..Len(tasks) :
        /\ tasks[t].pc = "done"
        /\ tasks[u].pc = "skipped"
        /\ tasks[u].file = tasks[t].file
        /\ registry[tasks[t].file].status = "processed"
        /\ \E d \in index : d.id[1] = t

\* the step removes an entry of the registry: only the two deletions do
RemovesEntry == \E f \in IngestFiles : HasEntry(f) /\ registry'[f] = NoEntry

----------------------------------------------------------------------------
(* chat_endpoint: what a request stores *)

\* the two rows of a request, in the order they are added
Exchange(q, a) ==
    <<[role |-> "user", content |-> q], [role |-> "assistant", content |-> a]>>

\* C27: a chat request stores its user message and the answer together or
\* not at all. The reply to a failure leaves the stored history and the
\* session row as they were; the reply to a success appends exactly the
\* query and then the answer it returns; no step before the reply writes
C27_ExchangeStoredWhole ==
    [][/\ pc = "failed" /\ pc' = "replied"
          => /\ db_messages' = db_messages
             /\ db_session' = db_session
             /\ http'.status = 500
       /\ pc = "END" /\ pc' = "replied"
          => /\ db_messages' = db_messages \o Exchange(query, http'.answer)
             /\ http'.status = 200
             /\ "answer" \in state_keys => http'.answer = answer
       /\ pc' # pc /\ pc' # "replied"
          => /\ db_messages' = db_messages
             /\ db_session' = db_session]_vars

\* a request that failed after one that was answered: the history holds the
\* exchange of the first and nothing of the second
C27_Witness ==
    /\ pc = "replied"
    /\ http.status = 500
    /\ error # ""
    /\ Len(db_messages) = 2
    /\ db_messages[1].role = "user"
    /\ db_messages[2].role = "assistant"

----------------------------------------------------------------------------
(* Ingestion and deletion, interleaved *)

AllTasksFinished == \A t \in 1..Len(tasks) : TaskFinished(t)

\* C28: once every started task has finished, every chunk of the index has
\* a source that is the filename of a registry entry
C28_NoOrphanChunks ==
    AllTasksFinished => \A d \in index : HasEntry(d.source)

\* C29: an upload is resolved. Once the background tasks have finished, no
\* entry of the registry is left in processing: it is processed or error
C29_UploadsResolved ==
    AllTasksFinished
      => \A f \in IngestFiles :
             HasEntry(f) => registry[f].status \in {"processed", "error"}

\* C30: after uploads and completed ingestions the index holds one copy of
\* each chunk of a filename: no two stored chunks have the same source and
\* the same text
C30_OneCopyPerChunk ==
    AllTasksFinished
      => \A d, e \in index :
             d.source = e.source /\ d.page_content = e.page_content => d = e
====
